---- MODULE Spec2Model ----
(***************************************************************************)
(* A model of mediapipe-handtrackingv2.py: the per-frame tracking loop,    *)
(* the output stage that follows it (CSV, ASCII heatmap, 3D trajectory,    *)
(* tracking report) and the movement statistics function.                  *)
(*                                                                         *)
(* Numbers.  Python floats are modelled in fixed point: every coordinate,  *)
(* distance, speed, range and mean is an integer count of thousandths      *)
(* (0.3 is 300), and detection_rate is in thousandths of a percent.  The   *)
(* wrist positions of the model are chosen so that every pairwise 3-D      *)
(* distance is a whole number of thousandths (3-4-5 and 5-12-13            *)
(* triangles), so math.sqrt is exact on them.                              *)
(***************************************************************************)
EXTENDS Integers, Sequences, FiniteSets, TLC

VARIABLES
    video,        \* the selected video file: its frames and its frame rate
    pc,           \* position of the script
    frame_idx,    \* the loop's 1-based frame counter
    cap_pos,      \* number of cap.read() calls that consumed a frame
    csv_data,     \* the record list
    out,          \* frames written to the output video, by input position
    csv_file,     \* content of <base_name>_hand_data.csv, or NoFile
    heatmap,      \* outcome of create_ascii_heatmap
    trajectory,   \* outcome of create_3d_trajectory
    report,       \* outcome of generate_tracking_report
    stats,        \* the aggregate calculate_movement_stats returned last
    error,        \* the uncaught exception that ended the script, or "none"
    report_out,   \* what generate_tracking_report printed and wrote
    base_name,    \* name of the selected video, without extension
    csv_folder,   \* names of the files in csv_data/
    reports_folder,  \* names of the files in reports/
    existing_videos, \* the menu's listing of videos/, in listing order
    message       \* the menu's answer to the last command

vars == <<video, pc, frame_idx, cap_pos, csv_data, out, csv_file, heatmap,
          trajectory, report, stats, error, report_out, base_name, csv_folder,
          reports_folder, existing_videos, message>>

\* the folders and the menu, which tracking and analysis leave alone
menu_vars == <<existing_videos, message>>
folder_vars == <<base_name, csv_folder, reports_folder>>

----------------------------------------------------------------------------
(* Bounds of the model *)

\* longest video of the tracking pass, in frames
MaxFrames == 3
\* most hands the detector reports in one frame of the model
MaxHands == 2
\* longest record sequence handed to calculate_movement_stats directly
MaxLen == 3
\* largest frame number in such a sequence
MaxFrameNo == 3

\* the most videos the menu lists
MaxVideos == 3

Hands == {"Left", "Right"}

\* frame rates cap.get(CAP_PROP_FPS) reports: 0 (unknown) and 30
FrameRates == {0, 30}

\* wrist positions <<x, y, z>> in thousandths
Positions == { <<0, 0, 0>>, <<300, 400, 0>>, <<300, 400, 1200>> }

\* the one wrist position the detector of the tracking pass reports
TrackPositions == { <<300, 400, 0>> }

----------------------------------------------------------------------------
(* Sequences of numbers *)

RECURSIVE Sum(_)
Sum(s) == IF s = <<>> THEN 0 ELSE s[1] + Sum(Tail(s))

RECURSIVE Max(_)
Max(s) == IF Len(s) = 1 THEN s[1]
          ELSE LET m == Max(Tail(s)) IN IF s[1] >= m THEN s[1] ELSE m

RECURSIVE Min(_)
Min(s) == IF Len(s) = 1 THEN s[1]
          ELSE LET m == Min(Tail(s)) IN IF s[1] <= m THEN s[1] ELSE m

\* len(set(...)) of a sequence
SetOf(s) == { s[i] : i \in 1..Len(s) }

\* math.sqrt on a non-negative number: the largest r with r*r <= n
RECURSIVE SqrtIter(_, _, _)
SqrtIter(n, lo, hi) ==
    IF lo >= hi THEN lo
    ELSE LET mid == (lo + hi + 1) \div 2 IN
         IF mid * mid <= n THEN SqrtIter(n, mid, hi) ELSE SqrtIter(n, lo, mid - 1)

Sqrt(n) == SqrtIter(n, 0, 2000)

----------------------------------------------------------------------------
(* calculate_movement_stats *)

\* a dict with no key: Python's {}
EmptyDict == [k \in {} |-> 0]

\* one record of csv_data, as the tracking loop appends it
Record(frame, hand, p, n) ==
    [frame |-> frame, hand |-> hand, wrist_x |-> p[1], wrist_y |-> p[2],
     wrist_z |-> p[3], num_landmarks |-> n]

\* [d for d in csv_data if d['hand'] == hand_type]
HandData(data, hand_type) == SelectSeq(data, LAMBDA d : d.hand = hand_type)

\* list.sort(key=lambda x: x['frame']) is stable: a record goes after the
\* records of the same or a smaller frame number that precede it
RECURSIVE InsertByFrame(_, _)
InsertByFrame(s, d) ==
    IF s = <<>> THEN <<d>>
    ELSE IF s[Len(s)].frame <= d.frame THEN Append(s, d)
    ELSE Append(InsertByFrame(SubSeq(s, 1, Len(s) - 1), d), s[Len(s)])

RECURSIVE SortByFrameStable(_)
SortByFrameStable(s) ==
    IF s = <<>> THEN <<>>
    ELSE InsertByFrame(SortByFrameStable(SubSeq(s, 1, Len(s) - 1)), s[Len(s)])

\* the sort left out: the records stay in input order
SortByFrameSkipped(s) == s

SortByFrame(s) == SortByFrameStable(s)

\* math.sqrt(dx**2 + dy**2 + dz**2)
Distance(prev, curr) ==
    LET dx == curr.wrist_x - prev.wrist_x
        dy == curr.wrist_y - prev.wrist_y
        dz == curr.wrist_z - prev.wrist_z
    IN  Sqrt(dx * dx + dy * dy + dz * dz)

\* the loop stopping one pair early: range(1, len(hand_data) - 1)
DistancesOffByOne(hand_data) ==
    [i \in 1..(Len(hand_data) - 2) |-> Distance(hand_data[i], hand_data[i + 1])]

\* the list distances: one entry per consecutive pair of hand_data
Distances(hand_data) ==
    [i \in 1..(Len(hand_data) - 1) |-> Distance(hand_data[i], hand_data[i + 1])]

\* the list speeds: an entry for a pair only if frame_diff > 0 and fps > 0;
\* speed = distance / (frame_diff / fps)
RECURSIVE SpeedsFrom(_, _, _)
SpeedsFrom(hand_data, fps, i) ==
    IF i > Len(hand_data) THEN <<>>
    ELSE LET prev == hand_data[i - 1]
             curr == hand_data[i]
             frame_diff == curr.frame - prev.frame
         IN  IF frame_diff > 0 /\ fps > 0
             THEN <<(Distance(prev, curr) * fps) \div frame_diff>>
                      \o SpeedsFrom(hand_data, fps, i + 1)
             ELSE SpeedsFrom(hand_data, fps, i + 1)

\* every pair taken for one frame apart: a sample per pair, no gap test
SpeedsPerPair(hand_data, fps) ==
    IF fps > 0
    THEN [i \in 1..(Len(hand_data) - 1) |-> Distance(hand_data[i], hand_data[i + 1]) * fps]
    ELSE <<>>

Speeds(hand_data, fps) == SpeedsFrom(hand_data, fps, 2)

\* np.std: the population standard deviation
Std(s) ==
    LET n == Len(s)
        mean == Sum(s) \div n
        sq == [i \in 1..n |-> ((s[i] - mean) * (s[i] - mean)) \div n]
    IN  Sqrt(Sum(sq))

\* frames counted without set(): every record counts
FramesActiveNoSet(hand_data) == Len(hand_data)

\* len(set(d['frame'] for d in hand_data))
FramesActive(hand_data) ==
    Cardinality(SetOf([i \in 1..Len(hand_data) |-> hand_data[i].frame]))

\* stats[hand_key] for a hand that has records
HandStats(hand_data, fps) ==
    LET distances == Distances(hand_data)
        speeds == Speeds(hand_data, fps)
        n == Len(hand_data)
        x_positions == [i \in 1..n |-> hand_data[i].wrist_x]
        y_positions == [i \in 1..n |-> hand_data[i].wrist_y]
        z_positions == [i \in 1..n |-> hand_data[i].wrist_z]
    IN  [ total_detections |-> n,
          frames_active |-> FramesActive(hand_data),
          total_distance |-> IF distances # <<>> THEN Sum(distances) ELSE 0,
          avg_distance_per_frame |->
              IF distances # <<>> THEN Sum(distances) \div Len(distances) ELSE 0,
          max_distance_per_frame |-> IF distances # <<>> THEN Max(distances) ELSE 0,
          min_distance_per_frame |-> IF distances # <<>> THEN Min(distances) ELSE 0,
          avg_speed |-> IF speeds # <<>> THEN Sum(speeds) \div Len(speeds) ELSE 0,
          max_speed |-> IF speeds # <<>> THEN Max(speeds) ELSE 0,
          min_speed |-> IF speeds # <<>> THEN Min(speeds) ELSE 0,
          speed_std |-> IF speeds # <<>> /\ Len(speeds) > 1 THEN Std(speeds) ELSE 0,
          position_ranges |->
              [ x_range |-> Max(x_positions) - Min(x_positions),
                y_range |-> Max(y_positions) - Min(y_positions),
                z_range |-> Max(z_positions) - Min(z_positions) ],
          center_of_mass |->
              [ x |-> Sum(x_positions) \div n,
                y |-> Sum(y_positions) \div n,
                z |-> Sum(z_positions) \div n ] ]

\* one pass of "for hand_type in ['Left', 'Right']": a hand without records
\* keeps the {} it was initialised with
\* hand_key = hand_type.lower()
HandKey(hand_type) == IF hand_type = "Left" THEN "left" ELSE "right"

StatsOfHand(data, hand_type, fps) ==
    LET hand_data == HandData(data, hand_type) IN
    IF hand_data = <<>> THEN EmptyDict
    ELSE HandStats(SortByFrame(hand_data), fps)

\* frames counted without set(): every record counts
UniqueFramesNoSet(all_data) == Len(all_data)

\* len(set(d['frame'] for d in all_data))
UniqueFrames(all_data) ==
    Cardinality(SetOf([i \in 1..Len(all_data) |-> all_data[i].frame]))

\* the last record's frame taken for the largest
RateDivisorLast(all_data) == all_data[Len(all_data)].frame

\* max_frame, the divisor of detection_rate
RateDivisor(all_data) == Max([i \in 1..Len(all_data) |-> all_data[i].frame])

\* stats['combined']; detection_rate is unique_frames / max_frame * 100
CombinedStats(all_data) ==
    LET max_frame == RateDivisor(all_data) IN
    [ total_detections |-> Len(all_data),
      unique_frames |-> UniqueFrames(all_data),
      detection_rate |->
          IF max_frame > 0
          THEN (UniqueFrames(all_data) * 100 * 1000) \div max_frame
          ELSE 0 ]

calculate_movement_stats(data, fps) ==
    IF data = <<>> THEN EmptyDict
    ELSE [ left |-> StatsOfHand(data, "Left", fps),
           right |-> StatsOfHand(data, "Right", fps),
           combined |-> CombinedStats(data) ]

----------------------------------------------------------------------------
(* The script: the selected video, the tracking loop, the output stage *)

NoFile == <<"no file">>

RECURSIVE SeqsUpTo(_, _)
SeqsUpTo(S, n) ==
    IF n = 0 THEN { <<>> }
    ELSE LET shorter == SeqsUpTo(S, n - 1) IN
         shorter \cup { Append(s, x) : s \in { t \in shorter : Len(t) = n - 1 }, x \in S }

\* one hand of results.multi_hand_landmarks: its handedness label, its wrist
\* (landmark[0]) and len(hand_landmarks.landmark)
Detections ==
    { [hand |-> h, wrist |-> p, landmarks |-> 21] : h \in Hands, p \in TrackPositions }

\* a frame of the video file: ret is what cap.read() reports for it, fails
\* says that hands.process raises on it, found is what hands.process returns
BadFrame == [ret |-> FALSE, fails |-> FALSE, found |-> <<>>]
ThrowFrame == [ret |-> TRUE, fails |-> TRUE, found |-> <<>>]
GoodFrames ==
    { [ret |-> TRUE, fails |-> FALSE, found |-> d] : d \in SeqsUpTo(Detections, MaxHands) }
Frames == {BadFrame, ThrowFrame} \cup GoodFrames

\* CAP_PROP_FRAME_COUNT of the video
FrameCount(v) == Len(v.frames)

\* generate_tracking_report before it has printed or written anything
NoReportFile == [exists |-> FALSE, complete |-> FALSE, detection |-> <<>>, movement |-> <<>>]

NoReportOut ==
    [ screen |-> [detection_table |-> <<>>, movement_table |-> <<>>],
      file |-> NoReportFile ]

\* File names are sequences of pieces: the letters of the video's name, then
\* the fixed ending
StartsWith(f, b) == Len(b) <= Len(f) /\ SubSeq(f, 1, Len(b)) = b
EndsWith(f, e) == Len(e) <= Len(f) /\ SubSeq(f, Len(f) - Len(e) + 1, Len(f)) = e

CsvSuffix == <<"_hand_data.csv">>

\* csv_file = os.path.join(csv_folder, f"{base_name}_hand_data.csv")
CsvPath(name) == name \o CsvSuffix
TrajectoryPath(name) == name \o <<"_3d_trajectory.html">>
ReportPath(name) == name \o <<"_tracking_report.txt">>

\* clean_old_csv_files: csv_files_found
CsvFilesFound(folder, name) ==
    { f \in folder : StartsWith(f, name) /\ EndsWith(f, CsvSuffix) }

\* clean_old_report_files: report_files_found
ReportFilesFound(folder, name) ==
    { f \in folder : f \in {TrajectoryPath(name), ReportPath(name)} }

\* the folder after the clean-up loop: every found file is removed, except
\* those whose os.remove raised (the exception is caught and printed)
AfterRemove(folder, found, not_removed) == folder \ (found \ not_removed)

Init ==
    /\ video \in { [frames |-> fs, fps |-> f] :
                     fs \in SeqsUpTo(Frames, MaxFrames), f \in FrameRates }
    /\ pc = "setup"
    /\ frame_idx = 0
    /\ cap_pos = 0
    /\ csv_data = <<>>
    /\ out = <<>>
    /\ csv_file = NoFile
    /\ heatmap = "none"
    /\ trajectory = "none"
    /\ report = "none"
    /\ stats = EmptyDict
    /\ error = "none"
    /\ report_out = NoReportOut
    /\ base_name = <<"a">>
    /\ csv_folder = {}
    /\ reports_folder = {}
    /\ existing_videos = << <<"a">> >>
    /\ message = "none"

\* an exception no handler catches ends the script
Raise(e) == pc' = "crashed" /\ error' = e

\* "Hand tracking" setup: duration_sec = total_frames / fps is not guarded
SetupRaises == video.fps = 0

\* "CSV Setup & delete old files", then "Hand tracking" up to the loop
Setup ==
    /\ pc = "setup"
    /\ \E csv_kept \in SUBSET CsvFilesFound(csv_folder, base_name),
          rep_kept \in SUBSET ReportFilesFound(reports_folder, base_name) :
         /\ csv_folder' =
               AfterRemove(csv_folder, CsvFilesFound(csv_folder, base_name), csv_kept)
         /\ reports_folder' =
               AfterRemove(reports_folder, ReportFilesFound(reports_folder, base_name),
                           rep_kept)
    /\ csv_file' = IF CsvPath(base_name) \in csv_folder' THEN csv_file ELSE NoFile
    /\ IF SetupRaises THEN Raise("ZeroDivisionError") ELSE pc' = "track" /\ error' = error
    /\ frame_idx' = 0
    /\ csv_data' = <<>>
    /\ UNCHANGED <<video, cap_pos, out, heatmap, trajectory, report, stats, report_out,
                   base_name, menu_vars>>

\* cap.read() at the end of the stream: ret is False, the loop ends
ReadEnd ==
    /\ pc = "track"
    /\ cap_pos = Len(video.frames)
    /\ pc' = "write_csv"
    /\ UNCHANGED <<video, frame_idx, cap_pos, csv_data, out, csv_file, heatmap,
                   trajectory, report, stats, error>>
    /\ UNCHANGED <<report_out, folder_vars, menu_vars>>

\* cap.read() on a frame that does not decode: "if not ret: break"
ReadFails ==
    /\ pc = "track"
    /\ cap_pos < Len(video.frames)
    /\ ~video.frames[cap_pos + 1].ret
    /\ cap_pos' = cap_pos + 1
    /\ pc' = "write_csv"
    /\ UNCHANGED <<video, frame_idx, csv_data, out, csv_file, heatmap, trajectory,
                   report, stats, error>>
    /\ UNCHANGED <<report_out, folder_vars, menu_vars>>

\* the records stamped before the counter is incremented
FrameRecordsStale(idx, found) ==
    [i \in 1..Len(found) |->
        Record(idx - 1, found[i].hand, found[i].wrist, found[i].landmarks)]

\* the records one frame appends, one per detected hand, in detector order
RECURSIVE FrameRecords(_, _)
FrameRecords(idx, found) ==
    IF found = <<>> THEN <<>>
    ELSE <<Record(idx, found[1].hand, found[1].wrist, found[1].landmarks)>>
             \o FrameRecords(idx, Tail(found))

\* hands.process raises: nothing in the loop catches it
DetectorRaises ==
    /\ pc = "track"
    /\ cap_pos < Len(video.frames)
    /\ video.frames[cap_pos + 1].ret
    /\ video.frames[cap_pos + 1].fails
    /\ cap_pos' = cap_pos + 1
    /\ frame_idx' = frame_idx + 1
    /\ Raise("DetectorError")
    /\ UNCHANGED <<video, csv_data, out, csv_file, heatmap, trajectory, report, stats>>
    /\ UNCHANGED <<report_out, folder_vars, menu_vars>>

\* one full iteration: read, count, detect, append the records, write the frame
ProcessFrame ==
    /\ pc = "track"
    /\ cap_pos < Len(video.frames)
    /\ video.frames[cap_pos + 1].ret
    /\ ~video.frames[cap_pos + 1].fails
    /\ cap_pos' = cap_pos + 1
    /\ frame_idx' = frame_idx + 1
    /\ csv_data' = csv_data \o FrameRecords(frame_idx + 1, video.frames[cap_pos + 1].found)
    /\ out' = Append(out, cap_pos + 1)
    /\ UNCHANGED <<video, pc, csv_file, heatmap, trajectory, report, stats, error>>
    /\ UNCHANGED <<report_out, folder_vars, menu_vars>>

csv_columns == <<"frame", "hand", "wrist_x", "wrist_y", "wrist_z", "num_landmarks">>

\* writer.writerows: one row per record, the fields in csv_columns order
CsvRows(data) ==
    [i \in 1..Len(data) |->
        <<data[i].frame, data[i].hand, data[i].wrist_x, data[i].wrist_y,
          data[i].wrist_z, data[i].num_landmarks>>]

\* the file opened with mode "a": the header and the rows come after what
\* the file held
WrittenCsvAppended(old, data) ==
    (IF Len(old) < 2 THEN <<>> ELSE old) \o <<csv_columns>> \o CsvRows(data)

\* open(csv_file, "w", newline=""), writeheader, writerows: mode "w" empties
\* the file, whatever it held
WrittenCsv(old, data) == <<csv_columns>> \o CsvRows(data)

\* "Write CSV": open(csv_file, "w") or a write may fail; nothing catches it
WriteCsv ==
    /\ pc = "write_csv"
    /\ \E io_ok \in BOOLEAN :
         IF io_ok
         THEN /\ csv_file' = WrittenCsv(csv_file, csv_data)
              /\ csv_folder' = csv_folder \cup {CsvPath(base_name)}
              /\ pc' = "heatmap"
              /\ error' = error
         ELSE /\ csv_file' = csv_file
              /\ csv_folder' = csv_folder
              /\ Raise("CsvIOError")
    /\ UNCHANGED <<video, frame_idx, cap_pos, csv_data, out, heatmap, trajectory,
                   report, stats, report_out, base_name, reports_folder, menu_vars>>

\* create_ascii_heatmap: "if not csv_data" prints the no-data line and returns
HeatmapOutcome(data) == IF data = <<>> THEN "no_data" ELSE "rendered"

Heatmap ==
    /\ pc = "heatmap"
    /\ heatmap' = HeatmapOutcome(csv_data)
    /\ pc' = "trajectory"
    /\ UNCHANGED <<video, frame_idx, cap_pos, csv_data, out, csv_file, trajectory,
                   report, stats, error>>
    /\ UNCHANGED <<report_out, folder_vars, menu_vars>>

\* the "if not csv_data" return left out
TrajectoryOutcomeNoGuard(data, io_ok) == IF io_ok THEN "written" ELSE "raised"

\* create_3d_trajectory: no-data return, else fig.write_html, which may fail
TrajectoryOutcome(data, io_ok) ==
    IF data = <<>> THEN "no_data" ELSE IF io_ok THEN "written" ELSE "raised"

Trajectory ==
    /\ pc = "trajectory"
    /\ \E io_ok \in BOOLEAN :
         LET res == TrajectoryOutcome(csv_data, io_ok) IN
         /\ IF res = "raised"
            THEN trajectory' = trajectory /\ Raise("HtmlIOError")
            ELSE trajectory' = res /\ pc' = "report" /\ error' = error
         /\ reports_folder' = IF res = "written"
                               THEN reports_folder \cup {TrajectoryPath(base_name)}
                               ELSE reports_folder
    /\ UNCHANGED <<video, frame_idx, cap_pos, csv_data, out, csv_file, heatmap,
                   report, stats, report_out, base_name, csv_folder, menu_vars>>

\* int(duration_sec * fps), with duration_sec = total_frames / fps
ReportTotalFrames(v) == IF v.fps = 0 THEN 0 ELSE FrameCount(v)

\* for hand in ['left', 'right']
HandKeys == <<"left", "right">>

\* hand.title()
Title(hand) == IF hand = "left" THEN "Left" ELSE "Right"

\* the hands with a 'total_detections' entry, in loop order
ListedHands(st) ==
    SelectSeq(HandKeys, LAMBDA hand : hand \in DOMAIN st
                                        /\ "total_detections" \in DOMAIN st[hand])

\* the on-screen rate: (active_frames / total_frames * 100) if total_frames > 0
\* else 0, in thousandths of a percent
ScreenRate(active_frames, total_frames) ==
    IF total_frames > 0 THEN (active_frames * 100 * 1000) \div total_frames ELSE 0

\* the rows of the "Hand Detection Summary" table
DetectionTable(st, total_frames) ==
    LET hands == ListedHands(st) IN
    [i \in 1..Len(hands) |->
        [ hand |-> Title(hands[i]),
          detections |-> st[hands[i]].total_detections,
          active_frames |-> st[hands[i]].frames_active,
          detection_rate |-> ScreenRate(st[hands[i]].frames_active, total_frames) ]]

\* the list metrics: name, key split at '.', format string
metrics ==
    << [name |-> "Total Distance", key |-> <<"total_distance">>, format_str |-> ":.4f"],
       [name |-> "Avg Speed (units/sec)", key |-> <<"avg_speed">>, format_str |-> ":.4f"],
       [name |-> "Max Speed (units/sec)", key |-> <<"max_speed">>, format_str |-> ":.4f"],
       [name |-> "Speed Variation (std)", key |-> <<"speed_std">>, format_str |-> ":.4f"],
       [name |-> "X Movement Range", key |-> <<"position_ranges", "x_range">>,
        format_str |-> ":.3f"],
       [name |-> "Y Movement Range", key |-> <<"position_ranges", "y_range">>,
        format_str |-> ":.3f"],
       [name |-> "Z Movement Range", key |-> <<"position_ranges", "z_range">>,
        format_str |-> ":.3f"] >>

\* format(val, format_str) raises ValueError unless format_str is a format
\* specification; one that begins with ':' is not
FormatRaises(format_str) == format_str \notin {".4f", ".3f"}

NotAvailable == [text |-> "N/A", value |-> 0]

\* left_val / right_val of one row: "N/A" unless the key is found and format
\* returns; a KeyError or ValueError is caught by the bare except
MetricCell(st, hand, m) ==
    IF hand \in DOMAIN st /\ m.key[1] \in DOMAIN st[hand] /\ ~FormatRaises(m.format_str)
    THEN [ text |-> "value",
           value |-> IF Len(m.key) = 1 THEN st[hand][m.key[1]]
                     ELSE st[hand][m.key[1]][m.key[2]] ]
    ELSE NotAvailable

\* the rows of the "Movement Analysis" table
MovementTable(st) ==
    [i \in 1..Len(metrics) |->
        [ metric |-> metrics[i].name,
          left |-> MetricCell(st, "left", metrics[i]),
          right |-> MetricCell(st, "right", metrics[i]) ]]

\* the report file's "Detection Rate" line divides by total_frames unguarded
FileRaises(st, total_frames) == total_frames = 0 /\ ListedHands(st) # <<>>

\* the DETECTION SUMMARY section of the report file
FileDetection(st, total_frames) ==
    LET hands == ListedHands(st) IN
    [i \in 1..Len(hands) |->
        [ hand |-> Title(hands[i]),
          detections |-> st[hands[i]].total_detections,
          active_frames |-> st[hands[i]].frames_active,
          detection_rate |-> (st[hands[i]].frames_active * 100 * 1000) \div total_frames ]]

\* the MOVEMENT ANALYSIS section: the hands with a 'total_distance' entry,
\* each with every entry of its aggregate
FileMovement(st) ==
    LET hands == SelectSeq(HandKeys, LAMBDA hand : hand \in DOMAIN st
                                             /\ "total_distance" \in DOMAIN st[hand])
    IN  [i \in 1..Len(hands) |-> [hand |-> Title(hands[i]), values |-> st[hands[i]]]]

\* the report file: cut short at the first Detection Rate line when that raises
ReportFile(st, total_frames) ==
    IF FileRaises(st, total_frames)
    THEN [exists |-> TRUE, complete |-> FALSE, detection |-> <<>>, movement |-> <<>>]
    ELSE [ exists |-> TRUE, complete |-> TRUE,
           detection |-> FileDetection(st, total_frames),
           movement |-> FileMovement(st) ]

\* what generate_tracking_report prints and writes
RenderReport(data, v, io_ok) ==
    IF data = <<>> THEN NoReportOut
    ELSE LET st == calculate_movement_stats(data, v.fps)
             total_frames == ReportTotalFrames(v)
         IN  [ screen |-> [ detection_table |-> DetectionTable(st, total_frames),
                            movement_table |-> MovementTable(st) ],
               file |-> IF io_ok THEN ReportFile(st, total_frames) ELSE NoReportFile ]

\* generate_tracking_report: no-data return; else the statistics, the tables,
\* then the report file, whose detection rate divides by total_frames unguarded
ReportOutcome(data, v, io_ok) ==
    IF data = <<>> THEN "no_data"
    ELSE IF ~io_ok THEN "io_raised"
    ELSE IF ReportTotalFrames(v) = 0 THEN "zero_division"
    ELSE "written"

Report ==
    /\ pc = "report"
    /\ \E io_ok \in BOOLEAN :
         LET res == ReportOutcome(csv_data, video, io_ok) IN
         /\ stats' = IF csv_data = <<>> THEN stats
                     ELSE calculate_movement_stats(csv_data, video.fps)
         /\ CASE res = "io_raised" -> report' = report /\ Raise("ReportIOError")
              [] res = "zero_division" -> report' = "partial" /\ Raise("ZeroDivisionError")
              [] OTHER -> report' = res /\ pc' = "done" /\ error' = error
         /\ report_out' = RenderReport(csv_data, video, io_ok)
         /\ reports_folder' = IF res \in {"written", "zero_division"}
                               THEN reports_folder \cup {ReportPath(base_name)}
                               ELSE reports_folder
    /\ UNCHANGED <<video, frame_idx, cap_pos, csv_data, out, csv_file, heatmap,
                   trajectory, base_name, csv_folder, menu_vars>>

Next ==
    \/ Setup
    \/ ReadEnd
    \/ ReadFails
    \/ DetectorRaises
    \/ ProcessFrame
    \/ WriteCsv
    \/ Heatmap
    \/ Trajectory
    \/ Report

Spec == Init /\ [][Next]_vars

----------------------------------------------------------------------------
(* Claims about the tracking loop and the output stage (Spec) *)

\* the next frame cap.read() will see, when there is one
NextFrame == video.frames[cap_pos + 1]

LaterFrameReadable ==
    \E j \in (cap_pos + 2)..Len(video.frames) : video.frames[j].ret

\* C1: a frame that fails to decode while later frames are still readable
\* produces no records, the frame counter still increments, and the pass goes
\* on with the following frames instead of ending.
C1_DecodeFailureSkipsFrame ==
    [][ ( /\ pc = "track"
          /\ cap_pos < Len(video.frames)
          /\ ~NextFrame.ret
          /\ LaterFrameReadable )
        => ( /\ pc' = "track"
             /\ frame_idx' = frame_idx + 1
             /\ csv_data' = csv_data ) ]_vars

\* C2: a frame on which the detector raises is treated as a frame with zero
\* detections: no record is appended, the frame is still written to the output
\* video, and the loop goes on.
C2_DetectorFailureIsNoHands ==
    [][ ( /\ pc = "track"
          /\ cap_pos < Len(video.frames)
          /\ NextFrame.ret
          /\ NextFrame.fails )
        => ( /\ pc' = "track"
             /\ csv_data' = csv_data
             /\ out' = Append(out, cap_pos + 1) ) ]_vars

\* C3: a failed CSV write loses only the CSV: the script goes on, and when it
\* ends the heatmap, the trajectory and the report have been produced.
C3_CsvFailureLosesOnlyCsv ==
    error = "CsvIOError" =>
        /\ pc # "crashed"
        /\ (pc = "done" =>
               heatmap # "none" /\ trajectory # "none" /\ report # "none")

IsPrefix(s, t) == Len(s) <= Len(t) /\ SubSeq(t, 1, Len(s)) = s

RecordFramesOrdered ==
    /\ \A i \in 1..Len(csv_data) :
           1 <= csv_data[i].frame /\ csv_data[i].frame <= frame_idx
    /\ \A i \in 1..(Len(csv_data) - 1) : csv_data[i].frame <= csv_data[i + 1].frame

\* C4: csv_data only grows by appends, every record's frame number is between
\* 1 and the current frame counter, and frame numbers never decrease along
\* the list.
C4_RecordsAppendOnly ==
    [](RecordFramesOrdered) /\ [][IsPrefix(csv_data, csv_data')]_vars

\* two hands recorded in one frame, then a hand in a later frame
C4_Witness ==
    /\ pc = "track"
    /\ Len(csv_data) = 3
    /\ csv_data[1].frame = csv_data[2].frame
    /\ csv_data[2].frame < csv_data[3].frame
    /\ frame_idx = csv_data[3].frame

\* the numbers a hand's aggregate carries
HandNumbers(d) ==
    IF DOMAIN d = {} THEN {}
    ELSE { d.total_detections, d.frames_active, d.total_distance,
           d.avg_distance_per_frame, d.max_distance_per_frame,
           d.min_distance_per_frame, d.avg_speed, d.max_speed, d.min_speed,
           d.speed_std, d.position_ranges.x_range, d.position_ranges.y_range,
           d.position_ranges.z_range, d.center_of_mass.x, d.center_of_mass.y,
           d.center_of_mass.z }

\* the numbers of the whole aggregate
AggregateNumbers(st) ==
    IF DOMAIN st = {} THEN {}
    ELSE HandNumbers(st.left) \cup HandNumbers(st.right)
           \cup { st.combined.total_detections, st.combined.unique_frames,
                  st.combined.detection_rate }

EmitterErrors == {"HtmlIOError", "ReportIOError"}

\* C10: with an empty record sequence the statistics function returns an
\* aggregate with no non-zero number, each emitter that has run ended in its
\* no-data state, and no emitter raised.
C10_EmptyRecordsNoData ==
    (csv_data = <<>> /\ pc \in {"heatmap", "trajectory", "report", "done", "crashed"}) =>
        /\ \A n \in AggregateNumbers(calculate_movement_stats(csv_data, video.fps)) : n = 0
        /\ heatmap \in {"none", "no_data"}
        /\ trajectory \in {"none", "no_data"}
        /\ report \in {"none", "no_data"}
        /\ error \notin EmitterErrors
        /\ (pc = "crashed" => heatmap = "none")
        /\ (pc = "done" =>
               heatmap = "no_data" /\ trajectory = "no_data" /\ report = "no_data")

\* a video with zero frames went through the whole output stage
C10_Witness ==
    /\ pc = "done"
    /\ video.frames = <<>>
    /\ csv_data = <<>>
    /\ heatmap = "no_data"
    /\ trajectory = "no_data"
    /\ report = "no_data"
    /\ error = "none"

\* C15: one frame is written to the output video for each frame read, in the
\* order read, detection or not: the frames written are never fewer than the
\* frame counter less one, and once the pass is over every frame counted has
\* been written.
C15_OneFrameWrittenPerRead ==
    /\ Len(out) \in {frame_idx, frame_idx - 1}
    /\ \A i \in 1..Len(out) : out[i] = i
    /\ (pc \notin {"setup", "track"}) => Len(out) = frame_idx

\* C19: a video whose frame rate is reported as 0 gets past the set-up to the
\* tracking loop and beyond with no division-by-zero fault.
C19_ZeroFrameRateNoFault ==
    (video.fps = 0 /\ pc # "setup") => ~(pc = "crashed" /\ error = "ZeroDivisionError")

----------------------------------------------------------------------------
(* The statistics function on its own: any record sequence, any frame rate *)

FrameNos == 1..MaxFrameNo

Records == { Record(f, h, p, 21) : f \in FrameNos, h \in Hands, p \in Positions }

InitStats ==
    /\ csv_data \in SeqsUpTo(Records, MaxLen)
    /\ video \in { [frames |-> <<>>, fps |-> f] : f \in FrameRates }
    /\ pc = "stats_call"
    /\ stats = EmptyDict
    /\ frame_idx = 0
    /\ cap_pos = 0
    /\ out = <<>>
    /\ csv_file = NoFile
    /\ heatmap = "none"
    /\ trajectory = "none"
    /\ report = "none"
    /\ error = "none"
    /\ report_out = NoReportOut
    /\ base_name = <<"a">>
    /\ csv_folder = {}
    /\ reports_folder = {}
    /\ existing_videos = << <<"a">> >>
    /\ message = "none"

\* stats = calculate_movement_stats(csv_data, fps)
StatsCall ==
    /\ pc = "stats_call"
    /\ stats' = calculate_movement_stats(csv_data, video.fps)
    /\ pc' = "stats_returned"
    /\ UNCHANGED <<video, frame_idx, cap_pos, csv_data, out, csv_file, heatmap,
                   trajectory, report, error>>
    /\ UNCHANGED <<report_out, folder_vars, menu_vars>>

NextStats == StatsCall

SpecStats == InitStats /\ [][NextStats]_vars

----------------------------------------------------------------------------
(* Claims about calculate_movement_stats (SpecStats) *)

Returned == pc = "stats_returned" /\ csv_data # <<>>

\* the places of a hand's records in csv_data
HandIdx(h) == { i \in 1..Len(csv_data) : csv_data[i].hand = h }

HasRecords(h) == HandIdx(h) # {}

HandFrames(h) == { csv_data[i].frame : i \in HandIdx(h) }

NoDuplicateFrame(h) ==
    \A i, j \in HandIdx(h) : i # j => csv_data[i].frame # csv_data[j].frame

\* C5: for every hand with a record, frames_active <= total_detections, with
\* equality exactly when no frame number occurs twice among the hand's
\* records: a frame with the hand twice counts once in frames_active and twice
\* in total_detections.
C5_ActiveFramesAtMostDetections ==
    Returned =>
        \A h \in Hands : HasRecords(h) =>
            LET st == stats[HandKey(h)] IN
            /\ st.total_detections = Cardinality(HandIdx(h))
            /\ st.frames_active = Cardinality(HandFrames(h))
            /\ st.frames_active <= st.total_detections
            /\ (st.frames_active = st.total_detections <=> NoDuplicateFrame(h))

\* the Left hand twice in one frame
C5_Witness ==
    /\ Returned
    /\ Len(csv_data) = 2
    /\ csv_data[1].hand = "Left" /\ csv_data[2].hand = "Left"
    /\ csv_data[1].frame = csv_data[2].frame
    /\ stats.left.frames_active = 1
    /\ stats.left.total_detections = 2

\* the place a record of hand h takes after a stable sort by frame number:
\* behind every record of the hand with a smaller frame number, and behind
\* those of the same frame number that precede it in csv_data
StableRank(h, i) ==
    Cardinality({ j \in HandIdx(h) :
                    \/ csv_data[j].frame < csv_data[i].frame
                    \/ (csv_data[j].frame = csv_data[i].frame /\ j <= i) })

ByRank(h, r) == csv_data[CHOOSE i \in HandIdx(h) : StableRank(h, i) = r]

\* the 3-D Euclidean distances between consecutive records of hand h in
\* stable frame order
Steps(h) ==
    [r \in 1..(Cardinality(HandIdx(h)) - 1) |-> Distance(ByRank(h, r), ByRank(h, r + 1))]

\* Distance is the exact Euclidean distance on the positions of the model
DistanceExact ==
    \A p, q \in Positions :
        LET d == Distance(Record(1, "Left", p, 21), Record(1, "Left", q, 21)) IN
        /\ d >= 0
        /\ d * d = (q[1] - p[1]) * (q[1] - p[1]) + (q[2] - p[2]) * (q[2] - p[2])
                     + (q[3] - p[3]) * (q[3] - p[3])

\* C6: in any input order, a hand's total_distance is the sum of the 3-D
\* Euclidean distances between consecutive records of that hand after a
\* stable sort by frame number.
C6_TotalDistanceIsSumOfSteps ==
    /\ DistanceExact
    /\ Returned =>
          \A h \in Hands : HasRecords(h) =>
              stats[HandKey(h)].total_distance = Sum(Steps(h))

\* the Left records are not in frame order and the order changes the sum
C6_Witness ==
    /\ Returned
    /\ \E i, j \in HandIdx("Left") : i < j /\ csv_data[i].frame > csv_data[j].frame
    /\ stats.left.total_distance # Sum(Distances(HandData(csv_data, "Left")))
    /\ stats.left.total_distance > 0

Scenario345 ==
    /\ csv_data = << Record(1, "Left", <<0, 0, 0>>, 21),
                     Record(2, "Left", <<300, 400, 0>>, 21),
                     Record(3, "Left", <<300, 400, 0>>, 21) >>
    /\ video.fps = 30

\* C7: max_distance_per_frame and min_distance_per_frame are the largest and
\* the smallest of the consecutive distances in frame order, both 0 for a hand
\* with fewer than two records; Left at frames 1, 2, 3 with positions (0,0,0),
\* (0.3,0.4,0), (0.3,0.4,0) at frame rate 30 gives total distance 0.5, active
\* frames 3, max step 0.5, min step 0.
C7_MaxMinStep ==
    Returned =>
        /\ \A h \in Hands : HasRecords(h) =>
              LET st == stats[HandKey(h)]
                  steps == Steps(h)
              IN  IF Len(steps) = 0
                  THEN st.max_distance_per_frame = 0 /\ st.min_distance_per_frame = 0
                  ELSE /\ st.max_distance_per_frame \in SetOf(steps)
                       /\ st.min_distance_per_frame \in SetOf(steps)
                       /\ \A d \in SetOf(steps) :
                              /\ d <= st.max_distance_per_frame
                              /\ d >= st.min_distance_per_frame
        /\ Scenario345 =>
              /\ stats.left.total_distance = 500
              /\ stats.left.frames_active = 3
              /\ stats.left.max_distance_per_frame = 500
              /\ stats.left.min_distance_per_frame = 0

C7_Witness ==
    /\ Returned
    /\ Scenario345
    /\ stats.left.max_distance_per_frame = 500
    /\ stats.left.min_distance_per_frame = 0

\* a hand's entry of the aggregate, 0 when the hand has no record
HandCount(h, field) ==
    IF HasRecords(h) THEN stats[HandKey(h)][field] ELSE 0

BothHandsOneFrame ==
    /\ Len(csv_data) = 2
    /\ csv_data[1].hand # csv_data[2].hand
    /\ csv_data[1].frame = csv_data[2].frame

\* C8: combined total_detections is the number of all records and
\* unique_frames the number of distinct frame numbers over both hands, so a
\* frame with a Left and a Right hand counts once in unique_frames, once in
\* each hand's frames_active and twice in the combined total_detections.
C8_CombinedCounts ==
    Returned =>
        /\ stats.combined.total_detections = Len(csv_data)
        /\ stats.combined.total_detections =
              HandCount("Left", "total_detections") + HandCount("Right", "total_detections")
        /\ stats.combined.unique_frames =
              Cardinality(HandFrames("Left") \cup HandFrames("Right"))
        /\ stats.combined.unique_frames =
              HandCount("Left", "frames_active") + HandCount("Right", "frames_active")
                - Cardinality(HandFrames("Left") \cap HandFrames("Right"))
        /\ BothHandsOneFrame =>
              /\ stats.combined.unique_frames = 1
              /\ stats.left.frames_active = 1
              /\ stats.right.frames_active = 1
              /\ stats.combined.total_detections = 2

C8_Witness ==
    /\ Returned
    /\ BothHandsOneFrame
    /\ stats.combined.unique_frames = 1
    /\ stats.combined.total_detections = 2

AllFrames == HandFrames("Left") \cup HandFrames("Right")

\* C9: the coverage ratio is (distinct frame numbers) / (largest frame number),
\* its divisor is never zero, and with positive frame numbers the ratio never
\* exceeds the whole (100 percent in detection_rate).
C9_CoverageRatio ==
    Returned =>
        LET max_frame == RateDivisor(csv_data)
            rate == stats.combined.detection_rate
        IN  /\ max_frame \in AllFrames
            /\ \A f \in AllFrames : f <= max_frame
            /\ max_frame > 0
            /\ rate * max_frame <= Cardinality(AllFrames) * 100 * 1000
            /\ Cardinality(AllFrames) * 100 * 1000 < (rate + 1) * max_frame
            /\ rate <= 100 * 1000

\* records in frames 1 and 3 only, the later frame first: 2 of 3 frames
C9_Witness ==
    /\ Returned
    /\ Len(csv_data) = 2
    /\ csv_data[1].frame = 3
    /\ csv_data[2].frame = 1
    /\ stats.combined.detection_rate = 66666

\* the frame gap of the r-th consecutive pair of hand h in frame order
FrameGap(h, r) == ByRank(h, r + 1).frame - ByRank(h, r).frame

\* the pairs of hand h that add a speed sample
SpeedPairs(h) ==
    { r \in 1..(Cardinality(HandIdx(h)) - 1) : FrameGap(h, r) > 0 /\ video.fps > 0 }

\* distance / (frame_gap / frame_rate)
SpeedAt(h, r) == (Steps(h)[r] * video.fps) \div FrameGap(h, r)

RECURSIVE SpeedSum(_, _)
SpeedSum(h, R) ==
    IF R = {} THEN 0
    ELSE LET r == CHOOSE x \in R : TRUE IN SpeedAt(h, r) + SpeedSum(h, R \ {r})

\* C11: a consecutive pair adds a speed sample, distance / (frame_gap /
\* frame_rate), only when its frame gap and the frame rate are positive: a pair
\* within one frame adds to the distance only, and at frame rate 0 avg_speed,
\* max_speed, min_speed and speed_std are all 0.
C11_SpeedSamples ==
    Returned =>
        \A h \in Hands : HasRecords(h) =>
            LET st == stats[HandKey(h)]
                R == SpeedPairs(h)
                samples == { SpeedAt(h, r) : r \in R }
            IN  /\ st.total_distance = Sum(Steps(h))
                /\ IF R = {}
                   THEN /\ st.avg_speed = 0 /\ st.max_speed = 0
                        /\ st.min_speed = 0 /\ st.speed_std = 0
                   ELSE /\ st.max_speed \in samples
                        /\ st.min_speed \in samples
                        /\ \A v \in samples : st.min_speed <= v /\ v <= st.max_speed
                        /\ st.avg_speed * Cardinality(R) <= SpeedSum(h, R)
                        /\ SpeedSum(h, R) < (st.avg_speed + 1) * Cardinality(R)
                        /\ (Cardinality(R) = 1 => st.speed_std = 0)
                /\ (video.fps = 0 => R = {})

\* Left twice in frame 1 at different places, then in frame 2: two distances,
\* one speed sample
C11_Witness ==
    /\ Returned
    /\ video.fps = 30
    /\ Cardinality(HandIdx("Left")) = 3
    /\ FrameGap("Left", 1) = 0
    /\ Steps("Left")[1] > 0
    /\ FrameGap("Left", 2) = 1
    /\ Steps("Left")[2] = 500
    /\ stats.left.max_speed = 15000
    /\ stats.left.min_speed = 15000

----------------------------------------------------------------------------
(* The analysis functions called on their own: any record sequence, in any
   order of frames, any frame rate, a duration of zero or more *)

CallRecords == { Record(f, h, p, 21) : f \in FrameNos, h \in Hands, p \in TrackPositions }

\* the videos the arguments fps and duration_sec are taken from
CallVideos ==
    { [frames |-> fr, fps |-> f] : fr \in {<<>>, [i \in 1..MaxFrames |-> <<>>]},
                                   f \in FrameRates }

InitCalls ==
    /\ csv_data \in SeqsUpTo(CallRecords, MaxLen)
    /\ video \in CallVideos
    /\ pc = "call"
    /\ stats = EmptyDict
    /\ frame_idx = 0
    /\ cap_pos = 0
    /\ out = <<>>
    /\ csv_file = NoFile
    /\ heatmap = "none"
    /\ trajectory = "none"
    /\ report = "none"
    /\ error = "none"
    /\ report_out = NoReportOut
    /\ base_name = <<"a">>
    /\ csv_folder = {}
    /\ reports_folder = {}
    /\ existing_videos = << <<"a">> >>
    /\ message = "none"

\* hand_data, left_data and right_data made one list with csv_data, so that
\* the sort reorders the caller's records
ListsAfterCallAliased(data) ==
    [ csv_data |-> SortByFrame(data),
      hand_data |-> [h \in Hands |-> SortByFrame(HandData(data, h))] ]

\* the lists when a function returns: the caller's list, which no statement
\* assigns to or sorts, and for each hand the new list the comprehension
\* built, which is the one that is sorted
ListsAfterCall(data) ==
    [ csv_data |-> data,
      hand_data |-> [h \in Hands |-> SortByFrame(HandData(data, h))] ]

\* stats = calculate_movement_stats(csv_data, fps)
CallStats ==
    /\ pc # "crashed"
    /\ stats' = calculate_movement_stats(csv_data, video.fps)
    /\ csv_data' = ListsAfterCall(csv_data).csv_data
    /\ pc' = "stats_returned"
    /\ UNCHANGED <<video, frame_idx, cap_pos, out, csv_file, heatmap, trajectory,
                   report, error, report_out, folder_vars, menu_vars>>

\* create_ascii_heatmap(csv_data, width, height, base_name)
CallHeatmap ==
    /\ pc # "crashed"
    /\ heatmap' = HeatmapOutcome(csv_data)
    /\ csv_data' = csv_data
    /\ pc' = "heatmap_returned"
    /\ UNCHANGED <<video, frame_idx, cap_pos, out, csv_file, trajectory, report,
                   stats, error, report_out, folder_vars, menu_vars>>

\* create_3d_trajectory(csv_data, base_name)
CallTrajectory ==
    /\ pc # "crashed"
    /\ \E io_ok \in BOOLEAN :
         LET res == TrajectoryOutcome(csv_data, io_ok) IN
         /\ IF res = "raised"
            THEN trajectory' = trajectory /\ Raise("HtmlIOError")
            ELSE trajectory' = res /\ pc' = "trajectory_returned" /\ error' = error
         /\ reports_folder' = IF res = "written"
                               THEN reports_folder \cup {TrajectoryPath(base_name)}
                               ELSE reports_folder
    /\ csv_data' = ListsAfterCall(csv_data).csv_data
    /\ UNCHANGED <<video, frame_idx, cap_pos, out, csv_file, heatmap, report, stats,
                   report_out, base_name, csv_folder, menu_vars>>

\* generate_tracking_report(csv_data, base_name, fps, duration_sec)
CallReport ==
    /\ pc # "crashed"
    /\ \E io_ok \in BOOLEAN :
         LET res == ReportOutcome(csv_data, video, io_ok) IN
         /\ stats' = IF csv_data = <<>> THEN stats
                     ELSE calculate_movement_stats(csv_data, video.fps)
         /\ CASE res = "io_raised" -> report' = report /\ Raise("ReportIOError")
              [] res = "zero_division" -> report' = "partial" /\ Raise("ZeroDivisionError")
              [] OTHER -> report' = res /\ pc' = "report_returned" /\ error' = error
         /\ report_out' = RenderReport(csv_data, video, io_ok)
         /\ reports_folder' = IF res \in {"written", "zero_division"}
                               THEN reports_folder \cup {ReportPath(base_name)}
                               ELSE reports_folder
    /\ csv_data' = ListsAfterCall(csv_data).csv_data
    /\ UNCHANGED <<video, frame_idx, cap_pos, out, csv_file, heatmap, trajectory,
                   base_name, csv_folder, menu_vars>>

NextCalls ==
    \/ CallStats
    \/ CallHeatmap
    \/ CallTrajectory
    \/ CallReport

SpecCalls == InitCalls /\ [][NextCalls]_vars

----------------------------------------------------------------------------
(* Claims about the analysis functions called on their own (SpecCalls) *)

\* generate_tracking_report has been called on records and has ended,
\* with or without an exception; its file could be opened
ReportCalled ==
    /\ csv_data # <<>>
    /\ \/ pc = "report_returned"
       \/ pc = "crashed" /\ error = "ZeroDivisionError"

\* the records hold hand h and not the other hand
OnlyHand(h) == \A i \in 1..Len(csv_data) : csv_data[i].hand = h

Other(h) == IF h = "Left" THEN "Right" ELSE "Left"

\* no row of a table or file section is about the hand titled t
NoRowFor(rows, t) == \A i \in 1..Len(rows) : rows[i].hand # t

\* every cell of the column of hand key k in the movement table reads "N/A"
ColumnNotAvailable(k) ==
    \A i \in 1..Len(report_out.screen.movement_table) :
        report_out.screen.movement_table[i][k].text = "N/A"

\* C12: when the records hold one hand and not the other, the statistics are
\* computed without error and the absent hand's aggregate is empty, and the
\* report ends without raising, with the absent hand's movement cells "N/A",
\* no row for it in the detection table on screen or in the file, and no
\* movement value for it in the file.
C12_AbsentHandRendered ==
    \A h \in Hands :
        (ReportCalled /\ OnlyHand(h)) =>
            /\ stats[HandKey(Other(h))] = EmptyDict
            /\ pc = "report_returned"
            /\ error = "none"
            /\ ColumnNotAvailable(HandKey(Other(h)))
            /\ NoRowFor(report_out.screen.detection_table, Other(h))
            /\ report_out.file.complete
            /\ NoRowFor(report_out.file.detection, Other(h))
            /\ NoRowFor(report_out.file.movement, Other(h))

\* C16: for records that are not empty, generate_tracking_report raises no
\* division by zero; when int(duration_sec * fps) is 0 the report file is
\* complete and each hand's detection rate in it is the 0 of the table on
\* screen.
C16_FileRateGuarded ==
    (ReportCalled /\ ReportTotalFrames(video) = 0) =>
        /\ error # "ZeroDivisionError"
        /\ report_out.file.complete
        /\ Len(report_out.file.detection) = Len(report_out.screen.detection_table)
        /\ \A i \in 1..Len(report_out.file.detection) :
              /\ report_out.file.detection[i].detection_rate = 0
              /\ report_out.screen.detection_table[i].detection_rate = 0

\* two records of one hand stand in csv_data against the order of their frames
OutOfFrameOrder ==
    \E i, j \in 1..Len(csv_data) :
        i < j /\ csv_data[i].hand = csv_data[j].hand /\ csv_data[i].frame > csv_data[j].frame

\* C13: calculate_movement_stats, create_3d_trajectory and
\* create_ascii_heatmap leave the record sequence as it was: the same records
\* with the same fields in the same order after every call.
C13_InputUnchanged == [][csv_data' = csv_data]_vars

C13_Witness ==
    /\ OutOfFrameOrder
    /\ pc \in {"stats_returned", "trajectory_returned"}
    /\ stats # EmptyDict
    /\ trajectory = "written"
    /\ heatmap = "rendered"

----------------------------------------------------------------------------
(* The main menu: the listing of the video folder, "delete N" and the choice
   of a video by its number *)

\* the names a video can have, without extension
VideoNames == { <<"a">>, <<"a", "b">>, <<"b">>, <<"c">> }

\* the file of a video in the video folder
VideoFile(name) == name \o <<".mp4">>

\* os.path.splitext(os.path.basename(output_path))[0]
BaseName(f) == SubSeq(f, 1, Len(f) - 1)

\* the listings os.listdir can give: files of distinct videos in any order
Listings ==
    { l \in SeqsUpTo({ VideoFile(v) : v \in VideoNames }, MaxVideos) :
        \A i, j \in 1..Len(l) : i # j => l[i] # l[j] }

\* the numbers typed after "delete"
DeleteNumbers == (0 - (MaxVideos + 1))..(MaxVideos + 1)

NoMessage == [choice |-> 0, printed |-> "none", file |-> <<>>]

InitMenu ==
    /\ existing_videos \in Listings
    /\ message = NoMessage
    /\ pc = "menu"
    /\ video = [frames |-> <<>>, fps |-> 30]
    /\ csv_data = <<>>
    /\ stats = EmptyDict
    /\ frame_idx = 0
    /\ cap_pos = 0
    /\ out = <<>>
    /\ csv_file = NoFile
    /\ heatmap = "none"
    /\ trajectory = "none"
    /\ report = "none"
    /\ error = "none"
    /\ report_out = NoReportOut
    /\ base_name = <<>>
    /\ csv_folder = {}
    /\ reports_folder = {}

\* s[idx] as Python evaluates it, idx counted from 0: a negative idx counts
\* from the end; outside -len(s)..len(s)-1 it raises IndexError
IndexRaises(s, idx) == idx >= Len(s) \/ idx < 0 - Len(s)
PyPlace(s, idx) == IF idx >= 0 THEN idx + 1 ELSE Len(s) + idx + 1

\* the listing once the file at place k is removed from the folder
RemoveAt(s, k) == SubSeq(s, 1, k - 1) \o SubSeq(s, k + 1, Len(s))

\* choice "delete n": idx = n - 1, existing_videos[idx], os.remove; any
\* exception prints the invalid-command message; then the menu lists again
Delete(n) ==
    /\ pc = "menu"
    /\ LET idx == n - 1 IN
       \E remove_ok \in BOOLEAN :
         IF ~IndexRaises(existing_videos, idx) /\ remove_ok
         THEN /\ existing_videos' = RemoveAt(existing_videos, PyPlace(existing_videos, idx))
              /\ message' = [ choice |-> n, printed |-> "Deleted:",
                              file |-> existing_videos[PyPlace(existing_videos, idx)] ]
         ELSE /\ existing_videos' = existing_videos
              /\ message' = [choice |-> n, printed |-> "Invalid delete command.",
                              file |-> <<>>]
    /\ UNCHANGED <<video, pc, frame_idx, cap_pos, csv_data, out, csv_file, heatmap,
                   trajectory, report, stats, error, report_out, folder_vars>>

\* choice "n" with 1 <= n <= len(existing_videos): the loop ends with that video
SelectNumber(n) ==
    /\ pc = "menu"
    /\ 1 <= n /\ n <= Len(existing_videos)
    /\ base_name' = BaseName(existing_videos[n])
    /\ pc' = "setup"
    /\ UNCHANGED <<video, frame_idx, cap_pos, csv_data, out, csv_file, heatmap,
                   trajectory, report, stats, error, report_out, csv_folder,
                   reports_folder, menu_vars>>

NextMenu ==
    \/ \E n \in DeleteNumbers : Delete(n)
    \/ \E n \in 1..MaxVideos : SelectNumber(n)

SpecMenu == InitMenu /\ [][NextMenu]_vars

----------------------------------------------------------------------------
(* Claims about the menu (SpecMenu) *)

\* C17: "delete N" removes a video only when 1 <= N <= number of listed
\* videos, and then the N-th listed one and no other; for any other N the
\* listing is unchanged and the invalid-command message is printed.
C17_DeleteOnlyListedNumber ==
    [][ (pc = "menu" /\ pc' = "menu") =>
          LET n == message'.choice IN
          IF 1 <= n /\ n <= Len(existing_videos)
          THEN existing_videos' # existing_videos =>
                   existing_videos' = RemoveAt(existing_videos, n)
          ELSE /\ existing_videos' = existing_videos
               /\ message'.printed = "Invalid delete command." ]_vars

----------------------------------------------------------------------------
(* A run for a video that was processed before: its CSV of the earlier run is
   in the CSV folder, beside files of other videos *)

\* the videos selected
FileBaseNames == { <<"a">>, <<"a", "b">> }

\* the CSV the earlier run left: the header and a row of that run
OldCsv == <<csv_columns>> \o CsvRows(<< Record(99, "Right", <<0, 0, 0>>, 21) >>)

FileFrames ==
    { BadFrame, ThrowFrame,
      [ret |-> TRUE, fails |-> FALSE, found |-> <<>>],
      [ret |-> TRUE, fails |-> FALSE,
       found |-> << [hand |-> "Left", wrist |-> <<300, 400, 0>>, landmarks |-> 21] >>] }

InitFiles ==
    /\ base_name \in FileBaseNames
    /\ \E others \in SUBSET { CsvPath(v) : v \in {<<"a">>, <<"a", "b">>, <<"b">>} } :
         csv_folder = {CsvPath(base_name)} \cup others
    /\ csv_file = OldCsv
    /\ reports_folder \in SUBSET { TrajectoryPath(base_name), ReportPath(base_name),
                                    ReportPath(<<"a", "b">>) }
    /\ video \in { [frames |-> fs, fps |-> f] :
                     fs \in SeqsUpTo(FileFrames, MaxFrames), f \in FrameRates }
    /\ pc = "setup"
    /\ frame_idx = 0
    /\ cap_pos = 0
    /\ csv_data = <<>>
    /\ out = <<>>
    /\ heatmap = "none"
    /\ trajectory = "none"
    /\ report = "none"
    /\ stats = EmptyDict
    /\ error = "none"
    /\ report_out = NoReportOut
    /\ existing_videos = << <<"a">> >>
    /\ message = "none"

SpecFiles == InitFiles /\ [][Next]_vars

----------------------------------------------------------------------------
(* Claims about the files of earlier runs (SpecFiles) *)

\* the CSV of this run has been written
CsvWritten ==
    \/ pc \in {"heatmap", "trajectory", "report", "done"}
    \/ pc = "crashed" /\ error \in {"HtmlIOError", "ReportIOError"}

\* the CSV holds the header, then one row per record of this run in record
\* order, and no row of the earlier run
CsvIsThisRun ==
    /\ Len(csv_file) = 1 + Len(csv_data)
    /\ csv_file[1] = csv_columns
    /\ \A i \in 1..Len(csv_data) :
          /\ csv_file[i + 1][1] = csv_data[i].frame
          /\ csv_file[i + 1][2] = csv_data[i].hand
          /\ csv_file[i + 1] # OldCsv[2]

\* C14 as stated: the CSV of the earlier run is gone before the new one is
\* written, and the CSV written is the header and this run's rows alone.
C14_OldCsvDeletedFirst ==
    /\ (pc \in {"track", "write_csv"}) => CsvPath(base_name) \notin csv_folder
    /\ CsvWritten => CsvIsThisRun

\* C14: before the new CSV is written the CSV of the earlier run is deleted,
\* or, when os.remove failed on it, still whole as the earlier run left it;
\* it is never added to: the CSV written is the header and one row per
\* record of this run in record order, with no row of the earlier run.
C14_OldCsvReplaced ==
    /\ (pc \in {"track", "write_csv"}) =>
          IF CsvPath(base_name) \in csv_folder THEN csv_file = OldCsv ELSE Len(csv_file) = 1
    /\ CsvWritten => (CsvIsThisRun /\ CsvPath(base_name) \in csv_folder)

C14_Witness ==
    /\ CsvWritten
    /\ pc = "done"
    /\ Len(csv_data) = 2
    /\ Len(csv_file) = 3

\* C18: clean_old_csv_files removes no CSV but the one of the video named
\* base_name, as clean_old_report_files removes no report but that video's.
C18_OnlyOwnCsvRemoved ==
    [][ pc = "setup" =>
          /\ (csv_folder \ csv_folder') \subseteq {CsvPath(base_name)}
          /\ (reports_folder \ reports_folder') \subseteq
                 {TrajectoryPath(base_name), ReportPath(base_name)} ]_vars

====
